---- MODULE Spec2Model ----
(*
  redutil/pubsub: the listener registry (record, recordList), the
  PubsubEmitter control loop (work), resubscription, message dispatch and
  the public Subscribe / Unsubscribe / Errs / Close operations.

  Goroutines are modelled as processes with a program counter each; an
  unbuffered channel operation is a rendezvous, i.e. one action in which
  the parked sender and the receiver both advance.
*)
EXTENDS Integers, Sequences, FiniteSets

\* ------------------------------------------------------------ bounds
\* Inputs of one behaviour: Subscribe/Unsubscribe calls, inbound messages,
\* connection failures and the Close call, together.
MaxEvents == 3
\* Goroutines that can be inside Subscribe/Unsubscribe at the same time.
NCallers == 2
\* Fields an event is built from, after its name.
MaxFields == 2
\* Operations applied to a registry on its own.
MaxOps == 4

Listeners == {"L1", "L2"}
Payloads  == {"x", "y"}

\* ------------------------------------------------------ event model
PlainEvent   == 0
PatternEvent == 1
EventTypes   == {PlainEvent, PatternEvent}

SubCommand(e) ==
    CASE e = PlainEvent   -> "SUBSCRIBE"
      [] e = PatternEvent -> "PSUBSCRIBE"

UnsubCommand(e) ==
    CASE e = PlainEvent   -> "UNSUBSCRIBE"
      [] e = PatternEvent -> "PUNSUBSCRIBE"

String(str) == [valid |-> TRUE, alias |-> "", value |-> str]

Star == [valid |-> TRUE, alias |-> "", value |-> "*"]

\* Field.As: the same field under an alias.
As(f, alias) == [valid |-> f.valid, alias |-> alias, value |-> f.value]

\* Field.IsZero
IsZero(f) == ~f.valid

\* Field{valid: false}
ZeroField == [valid |-> FALSE, alias |-> "", value |-> ""]

toFieldFromString(v) == String(v)

NewEvent(name, fields) ==
    [fields |-> <<toFieldFromString(name)>> \o fields, kind |-> PlainEvent]

NewPatternEvent(name, fields) ==
    [fields |-> <<toFieldFromString(name)>> \o fields, kind |-> PatternEvent]

RECURSIVE Join(_)
Join(fs) == IF fs = <<>> THEN "" ELSE Head(fs).value \o Join(Tail(fs))

Name(e) == Join(e.fields)

Type(e) == e.kind

\* The events callers subscribe to: one plain and one pattern event.
Events == { NewEvent("foo", <<>>), NewPatternEvent("fo", <<Star>>) }

\* The outcome of a call that returns a Field: the field, or a run-time panic.
Returns(f) == [panic |-> FALSE, field |-> f]
Panics     == [panic |-> TRUE, field |-> ZeroField]

\* Go's index expression fields[i]: a run-time panic outside 0..len-1.
Index(fields, i) ==
    IF i < 0 \/ i >= Len(fields) THEN Panics ELSE Returns(fields[i + 1])

\* Event.Get
Get(e, i) ==
    IF Len(e.fields) <= i THEN Returns(ZeroField) ELSE Index(e.fields, i)

\* Event.Find: the first field whose alias equals the argument.
Find(e, alias) ==
    IF \E i \in 1..Len(e.fields) : e.fields[i].alias = alias
    THEN Returns(e.fields[CHOOSE i \in 1..Len(e.fields) :
                     /\ e.fields[i].alias = alias
                     /\ \A j \in 1..(i-1) : e.fields[j].alias # alias])
    ELSE Returns(ZeroField)

\* The zero values of Go's Event and record.
ZeroEvent  == [fields |-> <<>>, kind |-> PlainEvent]
ZeroRecord == [name |-> "", ev |-> ZeroEvent, list |-> <<>>]

\* ---------------------------------------------------------- registry
\* A recordList is a sequence of records [name, ev, list].

\* find whose loop starts at the second record.
findSkipsFirst(rl, ev) ==
    IF \E i \in 2..Len(rl) : rl[i].name = ev
    THEN CHOOSE i \in 2..Len(rl) :
            rl[i].name = ev /\ \A j \in 2..(i-1) : rl[j].name # ev
    ELSE 0

\* find: the index of the first record named ev, 0 for Go's -1.
find(rl, ev) ==
    IF \E i \in 1..Len(rl) : rl[i].name = ev
    THEN CHOOSE i \in 1..Len(rl) :
            rl[i].name = ev /\ \A j \in 1..(i-1) : rl[j].name # ev
    ELSE 0

\* FindCopy with the copy one listener short.
FindCopyShort(rl, ev) ==
    LET idx == find(rl, ev)
    IN  IF idx = 0 THEN ZeroRecord
        ELSE [ev |-> rl[idx].ev, name |-> rl[idx].name,
              list |-> SubSeq(rl[idx].list, 1, Len(rl[idx].list) - 1)]

\* FindCopy: a copy of the record named ev, the zero record without one.
FindCopy(rl, ev) ==
    LET idx == find(rl, ev)
    IN  IF idx = 0 THEN ZeroRecord
        ELSE [ev |-> rl[idx].ev, name |-> rl[idx].name, list |-> rl[idx].list]


\* Add returning the number of listeners it found, not the incremented one.
AddStaleCount(rl, ev, fn) ==
    LET idx == find(rl, Name(ev))
    IN  IF idx = 0
        THEN [list  |-> Append(rl, [ev |-> ev, name |-> Name(ev), list |-> <<fn>>]),
              count |-> 1]
        ELSE [list  |-> [rl EXCEPT ![idx].list = Append(@, fn)],
              count |-> Len(rl[idx].list)]

\* Add returns the new list and the incremented number of listeners.
Add(rl, ev, fn) ==
    LET idx == find(rl, Name(ev))
    IN  IF idx = 0
        THEN [list  |-> Append(rl, [ev |-> ev, name |-> Name(ev), list |-> <<fn>>]),
              count |-> 1]
        ELSE [list  |-> [rl EXCEPT ![idx].list = Append(@, fn)],
              count |-> Len(rl[idx].list) + 1]

\* The cut used by Remove: element i is overwritten by the last one and
\* the sequence is truncated.
Cut(s, i) == SubSeq([s EXCEPT ![i] = s[Len(s)]], 1, Len(s) - 1)

\* Remove reporting the number of listeners it found, not the number left.
RemoveStaleCount(rl, ev, fn) ==
    LET idx == find(rl, Name(ev))
    IN  IF idx = 0 THEN [list |-> rl, count |-> 0]
        ELSE
          LET old  == rl[idx].list
              hit  == {i \in 1..Len(old) : old[i] = fn}
              left == IF hit = {} THEN old
                      ELSE Cut(old, CHOOSE i \in hit : \A j \in hit : i <= j)
          IN  IF Len(old) > 0
              THEN [list |-> [rl EXCEPT ![idx].list = left], count |-> Len(old)]
              ELSE [list |-> Cut(rl, idx), count |-> 0]

\* Remove whose comparison never matches, so that no listener is cut.
RemoveNoCut(rl, ev, fn) ==
    LET idx == find(rl, Name(ev))
    IN  IF idx = 0 THEN [list |-> rl, count |-> 0]
        ELSE [list |-> rl, count |-> Len(rl[idx].list)]

\* Remove without the break: every registration of fn is removed.
RemoveAll(rl, ev, fn) ==
    LET idx == find(rl, Name(ev))
    IN  IF idx = 0 THEN [list |-> rl, count |-> 0]
        ELSE
          LET old  == rl[idx].list
              left == SelectSeq(old, LAMBDA l : l # fn)
          IN  IF Len(left) > 0
              THEN [list |-> [rl EXCEPT ![idx].list = left], count |-> Len(left)]
              ELSE [list |-> Cut(rl, idx), count |-> 0]

\* Remove returns the new list and the event's remaining listeners.
Remove(rl, ev, fn) ==
    LET idx == find(rl, Name(ev))
    IN  IF idx = 0 THEN [list |-> rl, count |-> 0]
        ELSE
          LET old  == rl[idx].list
              hit  == {i \in 1..Len(old) : old[i] = fn}
              left == IF hit = {} THEN old
                      ELSE Cut(old, CHOOSE i \in hit : \A j \in hit : i <= j)
          IN  IF Len(left) > 0
              THEN [list |-> [rl EXCEPT ![idx].list = left], count |-> Len(left)]
              ELSE [list |-> Cut(rl, idx), count |-> 0]

\* ------------------------------------------- the registry in memory
\* Go's slices share backing arrays and records are reached by pointer.
\* A memory is [arrays, recs, list]: arrays holds the backing arrays of the
\* []Listener slices, recs the records [name, ev, arr, len], whose list is
\* the first len elements of arrays[arr] (nil for arr = 0), and list is
\* r.list, the pointers to the records of the recordList.
Nil == "nil"

\* The listeners of the record at ptr.
ListOf(m, ptr) ==
    IF m.recs[ptr].arr = 0 THEN <<>>
    ELSE SubSeq(m.arrays[m.recs[ptr].arr], 1, m.recs[ptr].len)

\* The record at ptr, as a value.
Deref(m, ptr) ==
    [name |-> m.recs[ptr].name, ev |-> m.recs[ptr].ev, list |-> ListOf(m, ptr)]

\* The recordList, as a value.
View(m) == [i \in 1..Len(m.list) |-> Deref(m, m.list[i])]

\* rec.list = append(rec.list, fn): in place while the capacity allows,
\* else into a new array of twice the capacity.
appendListener(m, ptr, fn) ==
    LET rec == m.recs[ptr]
        cap == IF rec.arr = 0 THEN 0 ELSE Len(m.arrays[rec.arr])
    IN  IF rec.len < cap
        THEN [m EXCEPT !.arrays[rec.arr][rec.len + 1] = fn,
                       !.recs[ptr].len = rec.len + 1]
        ELSE [m EXCEPT !.arrays = Append(@, ListOf(m, ptr) \o <<fn>>
                                            \o [i \in 1..(cap - 1) |-> Nil]),
                       !.recs[ptr].arr = Len(m.arrays) + 1,
                       !.recs[ptr].len = rec.len + 1]

\* Add, in memory.
memAdd(m, ev, fn) ==
    LET idx == find(View(m), Name(ev))
    IN  IF idx = 0
        THEN [arrays |-> Append(m.arrays, <<fn>>),
              recs   |-> Append(m.recs, [name |-> Name(ev), ev |-> ev,
                                         arr |-> Len(m.arrays) + 1, len |-> 1]),
              list   |-> Append(m.list, Len(m.recs) + 1)]
        ELSE appendListener(m, m.list[idx], fn)

\* Remove, in memory: the cuts write into the arrays in place.
memRemove(m, ev, fn) ==
    LET idx == find(View(m), Name(ev))
    IN  IF idx = 0 THEN m
        ELSE
          LET ptr == m.list[idx]
              rec == m.recs[ptr]
              a   == m.arrays[rec.arr]
              hit == {i \in 1..rec.len : a[i] = fn}
              i   == CHOOSE x \in hit : \A y \in hit : x <= y
              a1  == [a  EXCEPT ![i] = a[rec.len]]
              a2  == [a1 EXCEPT ![rec.len] = Nil]
              cut == IF hit = {} THEN m
                     ELSE [m EXCEPT !.arrays[rec.arr] = a2,
                                    !.recs[ptr].len = rec.len - 1]
          IN  IF cut.recs[ptr].len > 0 THEN cut
              ELSE [cut EXCEPT !.list = Cut(m.list, idx)]

\* FindCopy whose copy takes the record's slice, not a copy of its elements.
memFindCopyShared(m, name) ==
    LET idx == find(View(m), name)
    IN  IF idx = 0
        THEN [mem |-> [m EXCEPT !.recs = Append(@, [name |-> "", ev |-> ZeroEvent,
                                                    arr |-> 0, len |-> 0])],
              ptr |-> Len(m.recs) + 1]
        ELSE LET rec == m.recs[m.list[idx]]
             IN  [mem |-> [m EXCEPT !.recs = Append(@, rec)],
                  ptr |-> Len(m.recs) + 1]

\* FindCopy, in memory: a new record, with a new array (make) holding the
\* elements of the record's list (copy).
memFindCopy(m, name) ==
    LET idx == find(View(m), name)
    IN  IF idx = 0
        THEN [mem |-> [m EXCEPT !.recs = Append(@, [name |-> "", ev |-> ZeroEvent,
                                                    arr |-> 0, len |-> 0])],
              ptr |-> Len(m.recs) + 1]
        ELSE LET rec == m.recs[m.list[idx]]
             IN  [mem |-> [m EXCEPT
                      !.arrays = Append(@, ListOf(m, m.list[idx])),
                      !.recs   = Append(@, [name |-> rec.name, ev |-> rec.ev,
                                            arr |-> Len(m.arrays) + 1,
                                            len |-> rec.len])],
                  ptr |-> Len(m.recs) + 1]

\* record.Emit, in memory: the listeners invoked, in order.
memEmit(m, ptr) == ListOf(m, ptr)

\* ------------------------------------------------------------- state
VARIABLES
    subs,       \* p.subs: EventType -> recordList
    mu,         \* p.subsMu: "free", or its holder ("resub": the resubscribe goroutine)
    wpc,        \* position of work(): connect, resubscribe, select, err, done
    cnx,        \* work's cnx: index into conns, 0 for nil
    read,       \* work's read pump: index into conns, 0 for nil
    write,      \* work's write pump: index into conns, 0 for nil
    conns,      \* per acquired connection: how often cnx/read/write were closed
    perr,       \* the error work() is sending on p.errs ("" when none)
    errsOut,    \* the errors received from Errs()
    closer,     \* the Close() call: idle, pending (parked on p.closer), returned
    gpc,        \* the resubscribe goroutine: idle, drain, send
    gq,         \* the subscribe commands that goroutine has still to send
    calls,      \* history: the Subscribe/Unsubscribe calls made so far
    parked,     \* the calls (indices into calls) parked on p.send
    tasks,      \* the handleEvent goroutines, in the order work() started them
    log,        \* history: the listener invocations, in order
    delivered,  \* history: the commands the current write pump received
    \* an Event on its own
    event,      \* the Event under test
    res,        \* the last Get/Find call on it: [op, arg, panic, field]
    \* a recordList on its own
    rlist,      \* the recordList as a value: a sequence of [name, ev, list]
    mem,        \* the same recordList in memory: arrays, records, r.list
    dup,        \* the last FindCopy: [ptr, val], the record returned and
                \* its value at the time of the call
    hist,       \* history: the operations applied, with their results
    out         \* the listeners the last Emit on dup invoked, in order

emitterVars == <<subs, mu, wpc, cnx, read, write, conns, perr, errsOut, closer,
                 gpc, gq, calls, parked, tasks, log, delivered>>

eventVars == <<event, res>>

registryVars == <<rlist, mem, dup, hist, out>>

vars == <<emitterVars, eventVars, registryVars>>

\* The inputs taken so far.
Failures == Len(errsOut) + (IF perr = "" THEN 0 ELSE 1)

Used ==
    Len(calls) + Len(tasks) + Failures + (IF closer = "idle" THEN 0 ELSE 1)

NoCommand == [command |-> "", args |-> <<>>]

Command(verb, name) == [command |-> verb, args |-> <<name>>]

\* The inbound messages the read pump may decode.
Msgs ==
    { [kind |-> "message", pattern |-> "", channel |-> "foo", data |-> d] :
          d \in Payloads }
    \cup
    { [kind |-> "pmessage", pattern |-> "fo*", channel |-> "foo", data |-> d] :
          d \in Payloads }

\* No call made on the Event yet.
NoResult == [op |-> "", arg |-> "", panic |-> FALSE, field |-> ZeroField]

\* No FindCopy made yet.
NoDup == [ptr |-> 0, val |-> ZeroRecord]

\* The Event and the recordList on their own, not in use.
EventIdle == event = ZeroEvent /\ res = NoResult

RegistryInit ==
    /\ rlist = <<>>
    /\ mem = [arrays |-> <<>>, recs |-> <<>>, list |-> <<>>]
    /\ dup = NoDup
    /\ hist = <<>>
    /\ out = <<>>

EmitterInit ==
    /\ subs = [k \in EventTypes |-> <<>>]
    /\ mu = "free"
    /\ wpc = "connect"
    /\ cnx = 0 /\ read = 0 /\ write = 0
    /\ conns = <<>>
    /\ perr = ""
    /\ errsOut = <<>>
    /\ closer = "idle"
    /\ gpc = "idle"
    /\ gq = <<>>
    /\ calls = <<>>
    /\ parked = {}
    /\ tasks = <<>>
    /\ log = <<>>
    /\ delivered = <<>>

Init == EmitterInit /\ EventIdle /\ RegistryInit

\* --------------------------------------------------- the control loop
\* teardown without cnx = nil.
teardownKeepsCnx(cs, c, r, w) ==
    LET a == [cs EXCEPT ![r].read = @ + 1]
        b == [a  EXCEPT ![w].write = @ + 1]
    IN  [conns |-> [b EXCEPT ![c].cnx = @ + 1], cnx |-> c]

\* teardown: close the read pump, the write pump and the connection, and
\* forget the connection.
teardown(cs, c, r, w) ==
    LET a == [cs EXCEPT ![r].read = @ + 1]
        b == [a  EXCEPT ![w].write = @ + 1]
    IN  [conns |-> [b EXCEPT ![c].cnx = @ + 1], cnx |-> 0]

\* Top of the loop: with no connection, take one from the pool and build
\* the pumps around it.
WorkConnect ==
    /\ wpc = "connect"
    /\ IF cnx = 0
       THEN /\ conns' = Append(conns, [cnx |-> 0, read |-> 0, write |-> 0])
            /\ cnx' = Len(conns) + 1
            /\ read' = Len(conns) + 1
            /\ write' = Len(conns) + 1
            /\ delivered' = <<>>
            /\ wpc' = "resubscribe"
       ELSE /\ wpc' = "select"
            /\ UNCHANGED <<conns, cnx, read, write, delivered>>
    /\ UNCHANGED <<eventVars, registryVars, subs, mu, perr, errsOut, closer, gpc, gq, calls,
                   parked, tasks, log>>

\* p.resubscribe(): take the lock, start the goroutine, return; then the
\* pumps are started and the loop reaches its select.
WorkResubscribe ==
    /\ wpc = "resubscribe"
    /\ mu = "free"
    /\ mu' = "resub"
    /\ gpc' = "drain"
    /\ wpc' = "select"
    /\ UNCHANGED <<eventVars, registryVars, subs, cnx, read, write, conns, perr, errsOut, closer, gq,
                   calls, parked, tasks, log, delivered>>

\* case <-p.closer: return, and the deferred teardown runs.
WorkClose ==
    /\ wpc = "select"
    /\ closer = "pending"
    /\ LET t == teardown(conns, cnx, read, write)
       IN  conns' = t.conns /\ cnx' = t.cnx
    /\ closer' = "returned"
    /\ wpc' = "done"
    /\ UNCHANGED <<eventVars, registryVars, subs, mu, read, write, perr, errsOut, gpc, gq, calls,
                   parked, tasks, log, delivered>>

\* case data := <-p.send, the sender being a Subscribe/Unsubscribe call:
\* the command goes to the write pump and the call returns.
WorkSendCaller(i) ==
    /\ wpc = "select"
    /\ i \in parked
    /\ delivered' = Append(delivered, calls[i].cmd)
    /\ parked' = parked \ {i}
    /\ UNCHANGED <<eventVars, registryVars, subs, mu, wpc, cnx, read, write, conns, perr, errsOut,
                   closer, gpc, gq, calls, tasks, log>>

\* case data := <-p.send, the sender being the resubscribe goroutine.
WorkSendResub ==
    /\ wpc = "select"
    /\ gpc = "send"
    /\ gq # <<>>
    /\ delivered' = Append(delivered, Head(gq))
    /\ gq' = Tail(gq)
    /\ UNCHANGED <<eventVars, registryVars, subs, mu, wpc, cnx, read, write, conns, perr, errsOut,
                   closer, gpc, calls, parked, tasks, log>>

\* What a task remembers of the moment its message was received (history):
\* the listeners registered for the channel, and those whose removal by a
\* returned Unsubscribe call had happened.
RegisteredAt(m) ==
    LET rl == subs[PlainEvent]
    IN  { l \in Listeners :
            \E i \in 1..Len(rl) :
                /\ rl[i].name = m.channel
                /\ \E j \in 1..Len(rl[i].list) : rl[i].list[j] = l }

RemovedAt(m) ==
    { l \in Listeners :
        \E i \in 1..Len(calls) :
            /\ calls[i].op = "unsub" /\ i \notin parked /\ calls[i].hit
            /\ calls[i].l = l
            /\ Type(calls[i].ev) = PlainEvent
            /\ Name(calls[i].ev) = m.channel }

\* case event := <-read.Data(): go p.handleEvent(event)
WorkEvent(m) ==
    /\ wpc = "select"
    /\ Used < MaxEvents
    /\ tasks' = Append(tasks, [pc |-> "start", msg |-> m, rec |-> ZeroRecord,
                               i |-> 1, reg |-> RegisteredAt(m),
                               gone |-> RemovedAt(m)])
    /\ UNCHANGED <<eventVars, registryVars, subs, mu, wpc, cnx, read, write, conns, perr, errsOut,
                   closer, gpc, gq, calls, parked, log, delivered>>

\* The error branch without its teardown() call.
WorkErrorNoTeardown(src) ==
    /\ wpc = "select"
    /\ Used < MaxEvents
    /\ perr' = src
    /\ wpc' = "err"
    /\ UNCHANGED <<eventVars, registryVars, subs, mu, cnx, read, write, conns, errsOut, closer, gpc, gq,
                   calls, parked, tasks, log, delivered>>

\* case err := <-read.Errs() / <-write.Errs(): teardown(), then p.errs <- err
WorkError(src) ==
    /\ wpc = "select"
    /\ Used < MaxEvents
    /\ LET t == teardown(conns, cnx, read, write)
       IN  conns' = t.conns /\ cnx' = t.cnx
    /\ perr' = src
    /\ wpc' = "err"
    /\ UNCHANGED <<eventVars, registryVars, subs, mu, read, write, errsOut, closer, gpc, gq, calls,
                   parked, tasks, log, delivered>>

WorkReadError == WorkError("read")

WorkWriteError == WorkError("write")

\* A caller receives from Errs(): the send p.errs <- err completes and the
\* loop goes back to its top.
ErrsReceive ==
    /\ wpc = "err"
    /\ errsOut' = Append(errsOut, perr)
    /\ perr' = ""
    /\ wpc' = "connect"
    /\ UNCHANGED <<eventVars, registryVars, subs, mu, cnx, read, write, conns, closer, gpc, gq, calls,
                   parked, tasks, log, delivered>>

\* ------------------------------------------- the resubscribe goroutine
\* One subscribe command per record, plain registry first.
RECURSIVE Batch(_, _)
Batch(kind, recs) ==
    IF recs = <<>> THEN <<>>
    ELSE <<Command(SubCommand(kind), Head(recs).name)>> \o Batch(kind, Tail(recs))

resubscribe(s) == Batch(PlainEvent, s[PlainEvent]) \o Batch(PatternEvent, s[PatternEvent])

\* The drain loop receives a command from a parked sender and drops it.
ResubDrain(i) ==
    /\ gpc = "drain"
    /\ i \in parked
    /\ parked' = parked \ {i}
    /\ UNCHANGED <<eventVars, registryVars, subs, mu, wpc, cnx, read, write, conns, perr, errsOut,
                   closer, gpc, gq, calls, tasks, log, delivered>>

\* The drain loop takes its default branch (a caller that has not yet
\* parked on p.send is not seen) and the commands to send are read off
\* the registries.
ResubBreak ==
    /\ gpc = "drain"
    /\ gq' = resubscribe(subs)
    /\ gpc' = "send"
    /\ UNCHANGED <<eventVars, registryVars, subs, mu, wpc, cnx, read, write, conns, perr, errsOut,
                   closer, calls, parked, tasks, log, delivered>>

\* All commands are sent: p.subsMu.Unlock()
ResubUnlock ==
    /\ gpc = "send"
    /\ gq = <<>>
    /\ mu' = "free"
    /\ gpc' = "idle"
    /\ UNCHANGED <<eventVars, registryVars, subs, wpc, cnx, read, write, conns, perr, errsOut, closer,
                   gq, calls, parked, tasks, log, delivered>>

\* ------------------------------------------------------------ callers
\* Whether listener fn is registered for ev (history field of a call).
Registered(s, ev, fn) ==
    \E i \in 1..Len(s[Type(ev)]) :
        /\ s[Type(ev)][i].name = Name(ev)
        /\ \E j \in 1..Len(s[Type(ev)][i].list) : s[Type(ev)][i].list[j] = fn

\* A call: the registry is changed under the lock; when count says so the
\* caller goes on to send cmd on p.send and parks there, otherwise the call
\* returns. hit (history) tells whether the listener was registered.
Call(op, ev, l, r, sends, cmd) ==
    /\ Cardinality(parked) < NCallers
    /\ mu = "free"
    /\ Used < MaxEvents
    /\ subs' = [subs EXCEPT ![Type(ev)] = r.list]
    /\ calls' = Append(calls, [op |-> op, ev |-> ev, l |-> l,
                               count |-> r.count,
                               hit |-> Registered(subs, ev, l),
                               cmd |-> IF sends THEN cmd ELSE NoCommand])
    /\ parked' = IF sends THEN parked \cup {Len(calls) + 1} ELSE parked
    /\ UNCHANGED <<eventVars, registryVars, mu, wpc, cnx, read, write, conns, perr, errsOut, closer,
                   gpc, gq, tasks, log, delivered>>

Subscribe(ev, l) ==
    LET r == Add(subs[Type(ev)], ev, l)
    IN  Call("sub", ev, l, r, r.count = 1,
             Command(SubCommand(Type(ev)), Name(ev)))

Unsubscribe(ev, l) ==
    LET r == Remove(subs[Type(ev)], ev, l)
    IN  Call("unsub", ev, l, r, r.count = 0,
             Command(UnsubCommand(Type(ev)), Name(ev)))

\* Close(): p.closer <- struct{}{}; the caller parks until work() receives.
Close ==
    /\ closer = "idle"
    /\ Used < MaxEvents
    /\ closer' = "pending"
    /\ UNCHANGED <<eventVars, registryVars, subs, mu, wpc, cnx, read, write, conns, perr, errsOut, gpc,
                   gq, calls, parked, tasks, log, delivered>>

\* ----------------------------------------------------------- dispatch
\* The critical section with its Unlock deferred to the end of handleEvent:
\* the task still holds the lock when Emit runs.
lookupHoldsLock(s, channel) ==
    [rec |-> FindCopy(s[PlainEvent], channel), mu |-> "task"]

\* handleEvent's critical section (Lock, FindCopy, Unlock): the snapshot it
\* takes and the state it leaves the lock in.
lookup(s, channel) ==
    [rec |-> FindCopy(s[PlainEvent], channel), mu |-> "free"]

\* handleEvent on a redis.Message: snapshot the plain record under the lock.
HandleMessage(t) ==
    /\ t \in 1..Len(tasks)
    /\ tasks[t].pc = "start"
    /\ tasks[t].msg.kind = "message"
    /\ mu = "free"
    /\ LET r == lookup(subs, tasks[t].msg.channel)
       IN  /\ tasks' = [tasks EXCEPT ![t].rec = r.rec,
                                      ![t].pc = IF r.rec.list = <<>>
                                                THEN "done" ELSE "emit"]
           /\ mu' = r.mu
    /\ UNCHANGED <<eventVars, registryVars, subs, wpc, cnx, read, write, conns, perr, errsOut,
                   closer, gpc, gq, calls, parked, log, delivered>>

\* handleEvent on a redis.PMessage: the case is empty.
HandlePMessage(t) ==
    /\ t \in 1..Len(tasks)
    /\ tasks[t].pc = "start"
    /\ tasks[t].msg.kind = "pmessage"
    /\ tasks' = [tasks EXCEPT ![t].pc = "done"]
    /\ UNCHANGED <<eventVars, registryVars, subs, mu, wpc, cnx, read, write, conns, perr, errsOut,
                   closer, gpc, gq, calls, parked, log, delivered>>

\* l.Handle(ev, b) as an entry of the invocation log.
Handle(t, l, ev, b) == [task |-> t, l |-> l, ev |-> ev, data |-> b]

\* record.Emit: one iteration of the loop over the snapshot's listeners.
Emit(t) ==
    /\ t \in 1..Len(tasks)
    /\ tasks[t].pc = "emit"
    /\ log' = Append(log, Handle(t, tasks[t].rec.list[tasks[t].i],
                                 tasks[t].rec.ev, tasks[t].msg.data))
    /\ tasks' = [tasks EXCEPT ![t].i = @ + 1,
                              ![t].pc = IF tasks[t].i = Len(tasks[t].rec.list)
                                        THEN "done" ELSE "emit"]
    /\ UNCHANGED <<eventVars, registryVars, subs, mu, wpc, cnx, read, write, conns, perr, errsOut,
                   closer, gpc, gq, calls, parked, delivered>>

\* ------------------------------------------------------ specification
Next ==
    \/ WorkConnect
    \/ WorkResubscribe
    \/ WorkClose
    \/ \E i \in 1..MaxEvents : WorkSendCaller(i)
    \/ WorkSendResub
    \/ \E m \in Msgs : WorkEvent(m)
    \/ WorkReadError
    \/ WorkWriteError
    \/ ErrsReceive
    \/ \E i \in 1..MaxEvents : ResubDrain(i)
    \/ ResubBreak
    \/ ResubUnlock
    \/ \E ev \in Events, l \in Listeners : Subscribe(ev, l)
    \/ \E ev \in Events, l \in Listeners : Unsubscribe(ev, l)
    \/ Close
    \/ \E t \in 1..MaxEvents : HandleMessage(t)
    \/ \E t \in 1..MaxEvents : HandlePMessage(t)
    \/ \E t \in 1..MaxEvents : Emit(t)

Spec == Init /\ [][Next]_vars

\* Scheduling: every goroutine of the emitter that can take a step
\* eventually takes one, and a select whose case stays ready eventually
\* takes it. Nothing obliges callers to call, the pumps to fail or deliver,
\* or anyone to receive from Errs().
Fairness ==
    /\ WF_vars(WorkConnect)
    /\ WF_vars(WorkResubscribe)
    /\ WF_vars(WorkClose)
    /\ WF_vars(\E i \in 1..MaxEvents : WorkSendCaller(i))
    /\ WF_vars(WorkSendResub)
    /\ WF_vars(ResubBreak \/ \E i \in 1..MaxEvents : ResubDrain(i))
    /\ WF_vars(ResubUnlock)
    /\ WF_vars(\E t \in 1..MaxEvents : HandleMessage(t) \/ HandlePMessage(t) \/ Emit(t))

FairSpec == Spec /\ Fairness

\* The same, with a caller that keeps receiving from Errs().
FairSpecErrs == Spec /\ Fairness /\ WF_vars(ErrsReceive)

\* ------------------------------------------------- notions of the claims
\* The listeners the registry of kind holds for name, <<>> without a record.
ListenersOf(s, kind, name) ==
    IF \E i \in 1..Len(s[kind]) : s[kind][i].name = name
    THEN (CHOOSE r \in {s[kind][i] : i \in 1..Len(s[kind])} : r.name = name).list
    ELSE <<>>

HasRecord(s, kind, name) == \E i \in 1..Len(s[kind]) : s[kind][i].name = name

\* How many of the commands in seq are cmd.
Count(seq, cmd) == Cardinality({i \in 1..Len(seq) : seq[i] = cmd})

\* The Subscribe calls for ev that found no listener for its name.
FirstSubscribes(ev) ==
    Cardinality({i \in 1..Len(calls) :
        /\ calls[i].op = "sub"
        /\ Type(calls[i].ev) = Type(ev) /\ Name(calls[i].ev) = Name(ev)
        /\ calls[i].count = 1})

NoUnsubscribeYet == \A i \in 1..Len(calls) : calls[i].op = "sub"

\* C1: while the connection has not failed, the write pump has received, for
\* every event, no more subscribe commands than there were Subscribe calls
\* that found the name without listeners (one command per first Subscribe,
\* none for a further Subscribe).
C1_OneCommandPerFirstSubscribe ==
    Failures = 0 =>
        \A ev \in Events :
            Count(delivered, Command(SubCommand(Type(ev)), Name(ev)))
                <= FirstSubscribes(ev)

\* The step is an Unsubscribe(ev, l) call.
IsUnsubscribe(ev, l) ==
    /\ Len(calls') = Len(calls) + 1
    /\ calls'[Len(calls')].op = "unsub"
    /\ calls'[Len(calls')].ev = ev
    /\ calls'[Len(calls')].l = l

\* The step leaves the call it makes parked on p.send with the unsubscribe
\* command of ev.
EnqueuesUnsubscribe(ev) ==
    /\ parked' = parked \cup {Len(calls')}
    /\ Len(calls') \notin parked
    /\ calls'[Len(calls')].cmd = Command(UnsubCommand(Type(ev)), Name(ev))

EnqueuesNothing == parked' = parked

\* C2 as stated: an Unsubscribe call enqueues the unsubscribe command if and
\* only if it removed the last registered listener of the name.
C2_EnqueuesIffRemovedLast ==
    [][\A ev \in Events, l \in Listeners :
         IsUnsubscribe(ev, l) =>
            /\ EnqueuesUnsubscribe(ev) <=> ListenersOf(subs, Type(ev), Name(ev)) = <<l>>
            /\ EnqueuesUnsubscribe(ev) \/ EnqueuesNothing]_vars

\* C2 amended: an Unsubscribe call enqueues the unsubscribe command if and
\* only if it leaves the name without a record: it removed the last
\* registered listener, or the name had no record to begin with. A call that
\* leaves listeners behind enqueues nothing.
C2_EnqueuesIffNoRecordLeft ==
    [][\A ev \in Events, l \in Listeners :
         IsUnsubscribe(ev, l) =>
            /\ EnqueuesUnsubscribe(ev) <=>
                  \/ ListenersOf(subs, Type(ev), Name(ev)) = <<l>>
                  \/ ~HasRecord(subs, Type(ev), Name(ev))
            /\ EnqueuesUnsubscribe(ev) <=> ~HasRecord(subs', Type(ev), Name(ev))
            /\ EnqueuesUnsubscribe(ev) \/ EnqueuesNothing]_vars

\* C2 witness: an Unsubscribe that removed the last listener has been made,
\* and one on a name without a record is parked on p.send with its command.
C2_Witness ==
    /\ \E i \in 1..Len(calls) :
          calls[i].op = "unsub" /\ calls[i].hit /\ calls[i].count = 0
    /\ \E i \in parked :
          /\ calls[i].op = "unsub" /\ ~calls[i].hit
          /\ calls[i].cmd.command \in {"UNSUBSCRIBE", "PUNSUBSCRIBE"}

\* C3: on a connection acquired after a failure the write pump receives at
\* most one subscribe command per event name, and none for a name without a
\* record (no Unsubscribe is called, so records only appear).
C3_OneResubscribePerName ==
    (Len(conns) >= 2 /\ NoUnsubscribeYet) =>
        \A ev \in Events :
            LET n == Count(delivered, Command(SubCommand(Type(ev)), Name(ev)))
            IN  /\ n <= 1
                /\ n = 1 => HasRecord(subs, Type(ev), Name(ev))

\* C4: an error waiting to be reported is followed by the next reconnect
\* attempt, whether or not anybody receives from Errs().
C4_ErrorLeadsToReconnect == (wpc = "err") ~> (wpc = "connect")

AllReleased ==
    \A i \in 1..Len(conns) :
        conns[i].cnx = 1 /\ conns[i].read = 1 /\ conns[i].write = 1

\* C5: once Close() is called the loop exits, Close returns and the
\* connection and both pumps are released.
C5_CloseReturns ==
    (closer = "pending") ~> (closer = "returned" /\ wpc = "done" /\ AllReleased)

\* The record the registry of kind holds for name.
RecordOf(s, kind, name) ==
    CHOOSE r \in {s[kind][i] : i \in 1..Len(s[kind])} : r.name = name

\* The invocations task t has made, in order.
InvocationsOf(t) == SelectSeq(log, LAMBDA e : e.task = t)

IsPlain(t) == tasks[t].msg.kind = "message"

\* The step in which task t makes its lookup.
LooksUp(t) == t \in 1..Len(tasks) /\ tasks[t].pc = "start" /\ tasks'[t].pc # "start"

\* C6, the lookup: the snapshot a plain dispatch takes holds exactly the
\* listeners, in order, and the event of the plain record named by the
\* channel at that moment; without such a record it holds no listener and
\* the dispatch is over. The lookup changes neither registry nor connection
\* state and surfaces no error.
C6_Lookup ==
    \A t \in 1..MaxEvents :
        (LooksUp(t) /\ IsPlain(t)) =>
            /\ tasks'[t].rec.list =
                   ListenersOf(subs, PlainEvent, tasks[t].msg.channel)
            /\ HasRecord(subs, PlainEvent, tasks[t].msg.channel) =>
                   tasks'[t].rec.ev =
                       RecordOf(subs, PlainEvent, tasks[t].msg.channel).ev
            /\ ~HasRecord(subs, PlainEvent, tasks[t].msg.channel) =>
                   tasks'[t].pc = "done"
            /\ UNCHANGED <<subs, log, wpc, cnx, read, write, conns, perr, errsOut>>

\* C6, the invocations: what a plain dispatch has invoked so far is a prefix
\* of its snapshot, one invocation per registration, each with the
\* snapshot's event and the message's payload; when it is done, all of it.
C6_Invoked ==
    \A t \in 1..Len(tasks) :
        IsPlain(t) =>
            LET inv == InvocationsOf(t)
            IN  /\ Len(inv) <= Len(tasks[t].rec.list)
                /\ \A k \in 1..Len(inv) :
                       inv[k] = [task |-> t, l |-> tasks[t].rec.list[k],
                                 ev |-> tasks[t].rec.ev,
                                 data |-> tasks[t].msg.data]
                /\ tasks[t].pc = "done" => Len(inv) = Len(tasks[t].rec.list)
                /\ tasks[t].pc = "start" => inv = <<>>

\* C6: dispatch of a plain message invokes exactly the listeners its record
\* held at the moment of lookup, in record order, with the record's event
\* and the payload; with no record, nothing is invoked and nothing changes.
C6_PlainDispatch == []C6_Invoked /\ [][C6_Lookup]_vars

\* C6 witness: a plain dispatch has finished invoking two listeners.
C6_Witness ==
    \E t \in 1..Len(tasks) :
        /\ IsPlain(t) /\ tasks[t].pc = "done"
        /\ Len(tasks[t].rec.list) = 2
        /\ Len(InvocationsOf(t)) = 2

\* How often Subscribe was called for listener l on the plain name.
PlainSubscribes(name, l) ==
    Cardinality({i \in 1..Len(calls) :
        /\ calls[i].op = "sub" /\ calls[i].l = l
        /\ Type(calls[i].ev) = PlainEvent /\ Name(calls[i].ev) = name})

\* C7: a listener registered once, whose Unsubscribe had returned when the
\* control loop received a plain message on its name, is not invoked for
\* that message.
C7_NotInvokedAfterUnsubscribe ==
    \A t \in 1..Len(tasks) : \A l \in tasks[t].gone :
        (IsPlain(t) /\ PlainSubscribes(tasks[t].msg.channel, l) = 1) =>
            \A k \in 1..Len(log) : ~(log[k].task = t /\ log[k].l = l)

\* C7 witness: such a message has been dispatched to the end.
C7_Witness ==
    \E t \in 1..Len(tasks) : \E l \in tasks[t].gone :
        /\ IsPlain(t) /\ tasks[t].pc = "done"
        /\ PlainSubscribes(tasks[t].msg.channel, l) = 1

\* C8: of two plain messages on one channel, a listener registered for the
\* channel when the earlier one was received (and never unsubscribed) is
\* invoked for the earlier one before it is invoked for the later one.
C8_SameNameInOrder ==
    NoUnsubscribeYet =>
        \A k \in 1..Len(log) : \A t \in 1..Len(tasks) :
            ( /\ t < log[k].task
              /\ IsPlain(t) /\ IsPlain(log[k].task)
              /\ tasks[t].msg.channel = tasks[log[k].task].msg.channel
              /\ log[k].l \in tasks[t].reg )
            => \E j \in 1..(k-1) : log[j].task = t /\ log[j].l = log[k].l

\* C9: a pattern message whose pattern has a record is dispatched to that
\* record's listeners: its dispatch cannot end at once, with nothing
\* invoked, unless the pattern registry holds no listener for the pattern.
C9_PatternDispatch ==
    [][\A t \in 1..MaxEvents :
         ( /\ LooksUp(t)
           /\ tasks[t].msg.kind = "pmessage"
           /\ tasks'[t].pc = "done" )
         => ListenersOf(subs, PatternEvent, tasks[t].msg.pattern) = <<>>]_vars

\* C10: at most one connection is open; a connection and its pumps are open
\* exactly while they are the loop's current ones, and every other one the
\* loop created has been closed exactly once; after an error and after the
\* loop's exit nothing is open.
C10_ConnectionsClosedOnce ==
    /\ Cardinality({i \in 1..Len(conns) : conns[i].cnx = 0}) <= 1
    /\ \A i \in 1..Len(conns) :
          /\ conns[i].cnx <= 1 /\ conns[i].read <= 1 /\ conns[i].write <= 1
          /\ i # cnx =>
                conns[i].cnx = 1 /\ conns[i].read = 1 /\ conns[i].write = 1
          /\ i = cnx =>
                conns[i].cnx = 0 /\ conns[i].read = 0 /\ conns[i].write = 0
    /\ cnx # 0 => cnx = Len(conns) /\ read = cnx /\ write = cnx
    /\ wpc \in {"err", "done"} => cnx = 0
    /\ wpc \in {"resubscribe", "select"} => cnx # 0

\* C10 witness: the loop has exited after a reconnect.
C10_Witness == wpc = "done" /\ Len(conns) = 2 /\ AllReleased

\* C11: every terminal error taken from a pump yields exactly one value for
\* Errs(), offered when the failed connection and its pumps are closed and
\* before another connection is acquired; the teardown of Close yields none.
\* So the values offered so far number the connections acquired, less the
\* one that is open or that Close closed.
C11_OneErrorPerFailure ==
    /\ wpc = "err" =>
          /\ perr \in {"read", "write"}
          /\ cnx = 0 /\ AllReleased
          /\ Len(conns) = Len(errsOut) + 1
    /\ wpc # "err" => perr = ""
    /\ wpc = "connect" => Len(errsOut) = Len(conns)
    /\ wpc \in {"resubscribe", "select", "done"} =>
          Len(errsOut) = Len(conns) - 1

\* C11 witness: one error was reported and received, then Close ended the loop.
C11_Witness == wpc = "done" /\ Len(errsOut) = 1 /\ Len(conns) = 2

\* C12: while a listener runs (a dispatch is inside Emit) the registry lock
\* is not held by the dispatch: unless the resubscribe goroutine holds it,
\* Subscribe and Unsubscribe calls can take it, and the control loop at its
\* select still takes messages, errors and parked commands.
C12_ListenersRunUnlocked ==
    \A t \in 1..Len(tasks) :
        tasks[t].pc = "emit" =>
            /\ mu # "task"
            /\ (mu # "resub" /\ Used < MaxEvents /\ Cardinality(parked) < NCallers)
                  => /\ ENABLED (\E ev \in Events, l \in Listeners : Subscribe(ev, l))
                     /\ ENABLED (\E ev \in Events, l \in Listeners : Unsubscribe(ev, l))
            /\ (wpc = "select" /\ Used < MaxEvents)
                  => /\ ENABLED (\E m \in Msgs : WorkEvent(m))
                     /\ ENABLED WorkReadError
            /\ (wpc = "select" /\ parked # {})
                  => ENABLED (\E i \in 1..MaxEvents : WorkSendCaller(i))

\* C12 witness: while a dispatch is inside Emit, a Subscribe call has changed
\* the record the dispatch took its snapshot of.
C12_Witness ==
    \E t \in 1..Len(tasks) :
        /\ tasks[t].pc = "emit"
        /\ Len(ListenersOf(subs, PlainEvent, tasks[t].msg.channel))
              > Len(tasks[t].rec.list)

\* ------------------------------------------------- an Event on its own
\* The fields events are built from: unaliased, and aliased with As.
FieldPool == {String("a"), As(String("a"), "id"), As(String("b"), "id")}

RECURSIVE FieldSeqs(_)
FieldSeqs(n) ==
    IF n = 0 THEN {<<>>}
    ELSE FieldSeqs(n - 1)
         \cup {Append(fs, f) : fs \in {x \in FieldSeqs(n - 1) : Len(x) = n - 1},
                               f \in FieldPool}

\* NewEvent("foo", fields...) for every choice of up to MaxFields fields.
EventPool == {NewEvent("foo", fs) : fs \in FieldSeqs(MaxFields)}

\* The aliases looked up: none, one that fields carry, one that none does.
Aliases == {"", "id", "nope"}

EventInit ==
    /\ event \in EventPool
    /\ res = NoResult
    /\ EmitterInit /\ RegistryInit

\* event.Get(i)
EventGet(i) ==
    /\ res' = [op |-> "Get", arg |-> i,
               panic |-> Get(event, i).panic, field |-> Get(event, i).field]
    /\ UNCHANGED <<event, emitterVars, registryVars>>

\* event.Find(alias)
EventFind(alias) ==
    /\ res' = [op |-> "Find", arg |-> alias,
               panic |-> Find(event, alias).panic,
               field |-> Find(event, alias).field]
    /\ UNCHANGED <<event, emitterVars, registryVars>>

EventNext ==
    \/ \E i \in (-1)..(MaxFields + 1) : EventGet(i)
    \/ \E alias \in Aliases : EventFind(alias)

EventSpec == EventInit /\ [][EventNext]_vars

\* C13: Get(i) never fails, whatever the integer i: it returns the field at
\* position i when the event has one, and the absent field otherwise.
C13_GetNeverFails ==
    res.op = "Get" =>
        /\ ~res.panic
        /\ IF res.arg \in 0..(Len(event.fields) - 1)
           THEN res.field = event.fields[res.arg + 1]
           ELSE IsZero(res.field)

\* C14: Find(alias) returns the first field given that alias with As, and
\* the absent field when there is none: a field without an alias is never
\* returned, whatever the alias asked for.
C14_FindOnlyAliased ==
    res.op = "Find" =>
        LET given == {i \in 1..Len(event.fields) :
                         /\ event.fields[i].alias # ""
                         /\ event.fields[i].alias = res.arg}
        IN  /\ ~res.panic
            /\ IF given = {} THEN IsZero(res.field)
               ELSE res.field = event.fields[CHOOSE i \in given :
                                                \A j \in given : i <= j]

\* C15: the control loop is never waiting, in resubscribe(), for the lock
\* while the goroutine of the previous resubscription holds it with commands
\* still to send: it would be waiting for the batch to complete.
C15_LoopNotBlockedOnBatch ==
    ~(wpc = "resubscribe" /\ mu = "resub" /\ gpc = "send" /\ gq # <<>>)

\* The last command about ev in seq, NoCommand when there is none.
LastFor(seq, ev) ==
    LET about == {i \in 1..Len(seq) :
                     /\ seq[i].args = <<Name(ev)>>
                     /\ seq[i].command \in {SubCommand(Type(ev)),
                                            UnsubCommand(Type(ev))}}
    IN  IF about = {} THEN NoCommand
        ELSE seq[CHOOSE i \in about : \A j \in about : j <= i]

Quiescent == parked = {} /\ gpc = "idle" /\ mu = "free" /\ wpc = "select"

\* C16: at quiescence an event name has a record exactly when the last
\* command about it that the current write pump received is its subscribe
\* command.
C16_BackendAgreesAtQuiescence ==
    Quiescent =>
        \A ev \in Events :
            HasRecord(subs, Type(ev), Name(ev))
                <=> LastFor(delivered, ev).command = SubCommand(Type(ev))

\* --------------------------------------------- a recordList on its own
\* Three events of one type: two that differ and have the same name, and
\* one with another name.
RegistryEvents ==
    { NewEvent("foo", <<>>), NewEvent("fo", <<String("o")>>),
      NewEvent("bar", <<>>) }

RegistryNames == {Name(ev) : ev \in RegistryEvents}

RegistrySpecInit == RegistryInit /\ EmitterInit /\ EventIdle

Op(op, name, ev, fn, count) ==
    [op |-> op, name |-> name, ev |-> ev, fn |-> fn, count |-> count]

\* r.Add(ev, fn)
RegistryAdd(ev, fn) ==
    /\ Len(hist) < MaxOps
    /\ rlist' = Add(rlist, ev, fn).list
    /\ mem' = memAdd(mem, ev, fn)
    /\ hist' = Append(hist, Op("Add", Name(ev), ev, fn, Add(rlist, ev, fn).count))
    /\ UNCHANGED <<dup, out, emitterVars, eventVars>>

\* r.Remove(ev, fn)
RegistryRemove(ev, fn) ==
    /\ Len(hist) < MaxOps
    /\ rlist' = Remove(rlist, ev, fn).list
    /\ mem' = memRemove(mem, ev, fn)
    /\ hist' = Append(hist, Op("Remove", Name(ev), ev, fn,
                               Remove(rlist, ev, fn).count))
    /\ UNCHANGED <<dup, out, emitterVars, eventVars>>

\* dup := r.FindCopy(name)
RegistryFindCopy(name) ==
    /\ Len(hist) < MaxOps
    /\ LET r == memFindCopy(mem, name)
       IN  /\ mem' = r.mem
           /\ dup' = [ptr |-> r.ptr, val |-> FindCopy(rlist, name)]
    /\ out' = <<>>
    /\ hist' = Append(hist, Op("FindCopy", name, ZeroEvent, "", 0))
    /\ UNCHANGED <<rlist, emitterVars, eventVars>>

\* dup.Emit(dup.ev, b)
RegistryEmit ==
    /\ Len(hist) < MaxOps
    /\ dup.ptr # 0
    /\ out' = memEmit(mem, dup.ptr)
    /\ hist' = Append(hist, Op("Emit", dup.val.name, dup.val.ev, "", 0))
    /\ UNCHANGED <<rlist, mem, dup, emitterVars, eventVars>>

RegistryNext ==
    \/ \E ev \in RegistryEvents, fn \in Listeners : RegistryAdd(ev, fn)
    \/ \E ev \in RegistryEvents, fn \in Listeners : RegistryRemove(ev, fn)
    \/ \E name \in RegistryNames : RegistryFindCopy(name)
    \/ RegistryEmit

RegistrySpec == RegistrySpecInit /\ [][RegistryNext]_vars

\* The listeners rl holds for name, none without a record.
Held(rl, name) == FindCopy(rl, name).list

\* The operation a step applies, when it applies one.
Applied == hist'[Len(hist')]

Applies(op) == Len(hist') = Len(hist) + 1 /\ Applied.op = op

\* C17: whatever Add and Remove calls were made, the registry holds at most
\* one record per event name.
C17_OneRecordPerName ==
    /\ \A i, j \in 1..Len(rlist) : rlist[i].name = rlist[j].name => i = j
    /\ \A i, j \in 1..Len(mem.list) :
           Deref(mem, mem.list[i]).name = Deref(mem, mem.list[j]).name => i = j

\* C17 witness: two different events with one name were added, and share
\* the one record.
C17_Witness ==
    /\ Len(hist) >= 2
    /\ hist[1].op = "Add" /\ hist[2].op = "Add"
    /\ hist[1].ev # hist[2].ev /\ hist[1].name = hist[2].name
    /\ Len(rlist) = 1 /\ Len(rlist[1].list) = 2

C18_NoEmptyRecord == \A i \in 1..Len(rlist) : rlist[i].list # <<>>

C18_Step ==
    /\ Applies("Add") =>
          /\ Applied.count = Len(Held(rlist, Applied.name)) + 1
          /\ Held(rlist', Applied.name)
                 = Append(Held(rlist, Applied.name), Applied.fn)
    /\ Applies("Remove") =>
          /\ Applied.count = Len(Held(rlist', Applied.name))
          /\ Applied.count <= Len(Held(rlist, Applied.name))
          /\ (find(rlist', Applied.name) # 0) <=> (Applied.count > 0)
    /\ (Applies("Add") \/ Applies("Remove")) =>
          \A name \in RegistryNames \ {Applied.name} :
              /\ Held(rlist', name) = Held(rlist, name)
              /\ (find(rlist', name) # 0) <=> (find(rlist, name) # 0)

\* C18: Add returns 1 and creates the record for a name without one, and
\* returns the previous count plus one for a name with one; Remove returns
\* the number of listeners left and the record is gone exactly when that is
\* zero, so that no record with an empty list is ever stored and the next
\* Add returns 1 again; the records of other names keep their listeners.
C18_AddRemoveCounts == []C18_NoEmptyRecord /\ [][C18_Step]_vars

\* C18 witness: with a record of another name present, a name was added,
\* removed down to zero and added again, returning 1, 0 and 1.
C18_Witness ==
    /\ Len(hist) = 4
    /\ hist[1].op = "Add" /\ hist[2].op = "Add" /\ hist[2].count = 1
    /\ hist[3].op = "Remove" /\ hist[3].count = 0
    /\ hist[4].op = "Add" /\ hist[4].count = 1
    /\ hist[1].name # hist[2].name
    /\ hist[3].name = hist[2].name /\ hist[4].name = hist[2].name
    /\ Len(rlist) = 2

C19_Step ==
    /\ Applies("Add") =>
          \A l \in Listeners :
              Count(Held(rlist', Applied.name), l)
                  = Count(Held(rlist, Applied.name), l)
                    + (IF l = Applied.fn THEN 1 ELSE 0)
    /\ Applies("Remove") =>
          \A l \in Listeners :
              Count(Held(rlist', Applied.name), l)
                  = Count(Held(rlist, Applied.name), l)
                    - (IF l = Applied.fn /\ Count(Held(rlist, Applied.name), l) > 0
                       THEN 1 ELSE 0)
    /\ Applies("FindCopy") =>
          \A l \in Listeners :
              Count(dup'.val.list, l) = Count(Held(rlist, Applied.name), l)

C19_Emitted ==
    (hist # <<>> /\ hist[Len(hist)].op = "Emit") =>
        \A l \in Listeners : Count(out, l) = Count(dup.val.list, l)

\* C19: listeners are not deduplicated: each Add of a listener adds one
\* registration, a dispatch invokes a listener once per registration, and
\* each Remove takes away one registration of its listener and none of
\* another.
C19_NoDeduplication == []C19_Emitted /\ [][C19_Step]_vars

\* C19 witness: a dispatch invoked one listener twice.
C19_Witness ==
    /\ hist # <<>> /\ hist[Len(hist)].op = "Emit"
    /\ \E l \in Listeners : Count(out, l) = 2

C20_Independent ==
    /\ View(mem) = rlist
    /\ dup.ptr # 0 => Deref(mem, dup.ptr) = dup.val

C20_Step ==
    /\ Applies("FindCopy") =>
          dup'.val = IF find(rlist, Applied.name) = 0 THEN ZeroRecord
                     ELSE rlist[find(rlist, Applied.name)]
    /\ (Applies("FindCopy") \/ Applies("Emit")) =>
          /\ rlist' = rlist
          /\ mem'.list = mem.list
          /\ SubSeq(mem'.recs, 1, Len(mem.recs)) = mem.recs
          /\ SubSeq(mem'.arrays, 1, Len(mem.arrays)) = mem.arrays

\* C20: FindCopy returns a snapshot with the name, event and listeners the
\* record has at the call (the zero record for a name without one); Add and
\* Remove calls made afterwards do not change the snapshot's listeners; and
\* FindCopy, and Emit on a snapshot, leave the registry as it is.
C20_SnapshotIndependent == []C20_Independent /\ [][C20_Step]_vars

\* C20 witness: a snapshot with listeners, of a record that has changed
\* since.
C20_Witness ==
    /\ dup.ptr # 0 /\ dup.val.list # <<>>
    /\ FindCopy(rlist, dup.val.name) # dup.val

=============================================================================
